---- MODULE Spec2Model ----
(***************************************************************************)
(* The unsorted-data sink of tsk1183: the merge-sort buffer of             *)
(* src/src/buffer.rs (in-memory heap, on-disk sorted runs with a resumable *)
(* reader, push_record / dump_safe) and the fan-in loop of src/src/lib.rs  *)
(* (per-source last timestamps, watermark, notifications).                 *)
(*                                                                         *)
(* A file is modelled by the sequence of records serialized into it; byte  *)
(* offsets are computed from the serialized length of each record, which   *)
(* depends on the record's variant (the encoding is variable-length).      *)
(* Deserializing at an offset that is not the first byte of a record, or   *)
(* at the end of the data, fails.                                          *)
(***************************************************************************)
EXTENDS Integers, Sequences, FiniteSets, TLC

\* ---------------------------------------------------------------- bounds

\* Number of source classes of the model (the reference has five variants,
\* lib.rs:16-22; the code is uniform in the variant index).
NumSources == 2
\* Timestamps range over 0..MaxTs.
MaxTs == 2
\* Records pushed (received) in one behaviour.
MaxPush == 4
\* max_in_memory ranges over 1..MaxMem.
MaxMem == 2
\* Saturation of the counter of consecutive open/close cycles.
MaxCycles == 2
\* Values the producers send on the source channels in one behaviour of
\* the whole system.
MaxSend == 3

Sources == 1..NumSources
Timestamps == 0..MaxTs

\* ------------------------------------------------------------ data model

\* Option<T>: None is the empty set, Some(x) the singleton.
None == {}
Some(x) == {x}
Unwrap(o) == CHOOSE x \in o : TRUE

\* Record: variant index (src), timestamp (ts); id is the ordinal of the
\* push that created the value (records are moved, never copied).
MkRecord(src, ts, id) == [src |-> src, ts |-> ts, id |-> id]

\* Record::timestamp
timestamp(r) == r.ts

\* Number of bytes of the serialized record: 4 (variant tag) + 16 (u128
\* timestamp) + payload; payloads as the producer of examples/indefinite.rs
\* makes them: A "foo" (8 + 3), B bool (1), C (u32,u32) (8), D () (0),
\* E vec![5,1,2] (8 + 6).
SerLen(r) ==
    CASE r.src = 1 -> 31
      [] r.src = 2 -> 21
      [] r.src = 3 -> 28
      [] r.src = 4 -> 20
      [] OTHER -> 34

RECURSIVE Offset(_, _)
\* Byte offset of the first byte of the i-th record of a file (1-based);
\* Offset(recs, Len(recs) + 1) is the length of the data.
Offset(recs, i) == IF i <= 1 THEN 0 ELSE Offset(recs, i - 1) + SerLen(recs[i - 1])

\* bincode::deserialize_from at byte offset pos of a file holding recs: the
\* record that starts there and the number of bytes it takes, or None (an
\* error) when no record starts at pos.
Deserialize(recs, pos) ==
    LET idx == {i \in 1..Len(recs) : Offset(recs, i) = pos}
    IN IF idx = {} THEN None
       ELSE LET i == CHOOSE i \in idx : TRUE
            IN Some([record |-> recs[i], bytes_read |-> SerLen(recs[i])])

\* ------------------------------------------------------- in-memory heap

\* The orders in which BinaryHeap<Reverse<Record>>::pop can return the
\* records of a heap: nondecreasing timestamps, equal timestamps in any order.
SortedOrders(S) ==
    {s \in [1..Cardinality(S) -> S] :
        \A i, j \in 1..Cardinality(S) :
            i < j => (s[i] # s[j] /\ timestamp(s[i]) <= timestamp(s[j]))}

\* is_full that misses the exact fill (a mutant of is_full).
is_full_over(len, cap) == len > cap

\* in_memory::Buffer::is_full
is_full(len, cap) == len = cap

\* Vec growth when a push finds len = capacity (reached only if the
\* precondition of in_memory::Buffer::push is violated; release build).
GrowCap(len, cap) == IF len < cap THEN cap ELSE IF 2 * cap < 4 THEN 4 ELSE 2 * cap

\* ------------------------------------------------------------ on-disk run

\* FileStorage::new without the seek back to the start of the file (a
\* mutant of FileStorage_new).
FileStorage_new_no_rewind(order, name) ==
    IF Len(order) = 0 THEN None
    ELSE Some([name |-> name, recs |-> order, pos |-> Offset(order, Len(order) + 1),
               remaining |-> Len(order)])

\* FileStorage::new: the run made of the popped records, cursor at the
\* start of the file; None for an empty heap.
FileStorage_new(order, name) ==
    IF Len(order) = 0 THEN None
    ELSE Some([name |-> name, recs |-> order, pos |-> 0, remaining |-> Len(order)])

\* is_empty off by one (a mutant of is_empty).
is_empty_off_by_one(fs) == fs.remaining <= 1

\* FileStorage::is_empty
is_empty(fs) == fs.remaining = 0

\* FileStorageReader::read_next.  cursor is the offset of the next byte the
\* reader takes from the file, bytes_read the counter of WrappedBufReader.
read_next(rd) ==
    LET rem == IF rd.last # None THEN rd.remaining - 1 ELSE rd.remaining
    IN IF ~is_empty([rd EXCEPT !.remaining = rem])
       THEN LET d == Deserialize(rd.recs, rd.cursor)
            IN IF d = None
               THEN [rd EXCEPT !.remaining = rem, !.err = TRUE]
               ELSE [rd EXCEPT !.remaining = rem,
                               !.cursor = rd.cursor + Unwrap(d).bytes_read,
                               !.bytes_read = rd.bytes_read + Unwrap(d).bytes_read,
                               !.last = d]
       ELSE [rd EXCEPT !.remaining = rem, !.last = None]

\* A reader that counts the bytes from zero, not from the parked offset of
\* the file (a mutant of ReaderInit).
ReaderInitFromZero(fs) ==
    [name |-> fs.name, recs |-> fs.recs, remaining |-> fs.remaining,
     cursor |-> fs.pos, bytes_read |-> 0, last |-> None, err |-> FALSE]

\* FileStorageReader::new, before the first read: the byte counter starts
\* at the parked offset of the file (seek(Current(0))).
ReaderInit(fs) ==
    [name |-> fs.name, recs |-> fs.recs, remaining |-> fs.remaining,
     cursor |-> fs.pos, bytes_read |-> fs.pos, last |-> None, err |-> FALSE]

\* FileStorageReader::new (FileStorage::read): the reader reads the head.
read(fs) == read_next(ReaderInit(fs))

\* FileStorageReader::last
Last(rd) == IF rd.last = None THEN None ELSE Some(Unwrap(rd.last).record)

\* close that rewinds to the start of the file, as FileStorage::new does
\* (a mutant of ClosePosition).
ClosePositionStart(bytes_read, last) == 0

\* close that parks where the reader stopped, without stepping back over
\* the cached head (a mutant of ClosePosition).
ClosePositionNoRewind(bytes_read, last) == bytes_read

\* The offset FileStorageReader::close seeks to: the bytes read so far,
\* less the bytes of the cached head when there is one.  (The seek is
\* absolute, so the read-ahead of the BufReader does not matter.)
ClosePosition(bytes_read, last) ==
    IF last = None THEN bytes_read ELSE bytes_read - Unwrap(last).bytes_read

\* FileStorageReader::close
close(rd) ==
    [name |-> rd.name, recs |-> rd.recs, remaining |-> rd.remaining,
     pos |-> ClosePosition(rd.bytes_read, rd.last)]

\* The records of a closed run that are still unread.
Unread(fs) == SubSeq(fs.recs, Len(fs.recs) - fs.remaining + 1, Len(fs.recs))

\* ------------------------------------------- output writer and reader

\* A writer that keeps its buffered records in timestamp order (a mutant of
\* Writer_write).
Writer_write_by_timestamp(wr, record) ==
    LET before == SelectSeq(wr.obuf, LAMBDA x : timestamp(x) <= timestamp(record))
        after == SelectSeq(wr.obuf, LAMBDA x : timestamp(x) > timestamp(record))
    IN [wr EXCEPT !.obuf = before \o <<record>> \o after]

\* output::Writer::write: the record is serialized into the BufWriter (its
\* capacity, 8 KiB, is above the bytes of all the records of a behaviour, so
\* nothing reaches the file before flush).
Writer_write(wr, record) == [wr EXCEPT !.obuf = Append(@, record)]

\* A flush that leaves the buffered records in the BufWriter (a mutant of
\* Writer_flush).
Writer_flush_nothing(wr) == wr

\* output::Writer::flush: the buffered records are appended to the file.
Writer_flush(wr) == [obuf |-> <<>>, output |-> wr.output \o wr.obuf]

RECURSIVE WriteAll(_, _)
\* The calls of output::Writer::write made by one merge, in order.
WriteAll(wr, recs) ==
    IF Len(recs) = 0 THEN wr ELSE WriteAll(Writer_write(wr, Head(recs)), Tail(recs))

\* A reader that steps over a fixed number of bytes per record (a mutant
\* of Reader_read).
Reader_read_fixed_length(file, pos) ==
    LET d == Deserialize(file, pos)
    IN IF d = None THEN [ok |-> FALSE, record |-> None, pos |-> pos]
       ELSE [ok |-> TRUE, record |-> Some(Unwrap(d).record), pos |-> pos + 20]

\* output::Reader::read at byte offset pos of the output file: the record
\* that starts there and the offset after it, or an error (end of file)
\* that consumes nothing.
Reader_read(file, pos) ==
    LET d == Deserialize(file, pos)
    IN IF d = None THEN [ok |-> FALSE, record |-> None, pos |-> pos]
       ELSE [ok |-> TRUE, record |-> Some(Unwrap(d).record),
             pos |-> pos + Unwrap(d).bytes_read]

\* ------------------------------------------------------- merge-sort buffer

VARIABLES
    max_in_memory,                \* Config::max_in_memory
    capacity,                     \* capacity of the in-memory heap
    in_memory,                    \* in_memory::Buffer: the records of the heap
    files,                        \* Buffer::files: closed on-disk runs
    files_counter,                \* Buffer::files_counter
    earliest_buffered_timestamp,  \* Option<Timestamp>
    obuf,                         \* records written to output::Writer, not yet flushed
    output,                       \* records in the output file, in file order
    failed,                       \* an I/O-class error surfaced from the buffer
    reader,                       \* an open FileStorageReader (Option), unit level
    last_timestamps,              \* sink loop: [Option<Timestamp>; N]
    watermark,                    \* sink loop: the value last computed by find_earliest_timestamp
    notified,                     \* counts sent as NewRecordsAvailable, in order
    \* history variables
    total_pushed,                 \* records pushed so far (the next record's id is one more)
    out_meta,                     \* per output record: the ordinal of the dump_safe call that
                                  \* wrote it, and the number of records pushed before that call
    pre_violated,                 \* in_memory::Buffer::push was entered with len >= capacity
    last_call,                    \* the last call on the buffer: operation, argument, count returned
    received,                     \* records received by the sink loop, in order
    push_failed,                  \* a call of push_record by the sink loop has returned an error
    heads,                        \* unit level: heads seen at the first open and after each read_next
    snap,                         \* unit level: the closed run as it was at the last open (Option)
    cycles,                       \* unit level: consecutive open/close cycles without read_next
    rpos,                         \* output::Reader: byte offset of the next read in the output file
    read_log,                     \* history: the records output::Reader::read has returned, in order
    writes,                       \* history: the records passed to output::Writer::write, unit level
    src_chan,                     \* per source: the values in its typed channel, in order
    src_open,                     \* per source: the producer still holds the sender
    fwd_done,                     \* per source: its forwarder thread has exited
    chan,                         \* the unified channel of run(): records in flight, in order
    sink_pc,                      \* the receive loop of run(): "loop", "closed", "broke" or "failed"
    notif,                        \* NewRecordsAvailable counts in the notification channel
    notif_rx,                     \* the consumer still holds the notification receiver
    cons,                         \* SortedOutputListenLoop::run: position, records left in the batch, prev
    produced,                     \* history: values the producers tried to send
    accepted,                     \* history: values the source channels accepted
    sent                          \* history, per source: the timestamps of the values its
                                  \* channel accepted, in the order they were sent

buf_vars == <<max_in_memory, capacity, in_memory, files, files_counter,
              earliest_buffered_timestamp, obuf, output, failed,
              total_pushed, out_meta, pre_violated, last_call>>
unit_vars == <<reader, heads, snap, cycles>>
sink_vars == <<last_timestamps, watermark, notified, received, push_failed>>
out_vars == <<rpos, read_log, writes>>
sys_vars == <<src_chan, src_open, fwd_done, chan, sink_pc, notif, notif_rx, cons,
              produced, accepted, sent>>
vars == <<buf_vars, unit_vars, sink_vars, out_vars, sys_vars>>

\* A cached minimum that is set by the first record and never lowered (a
\* mutant of UpdateEarliest).
UpdateEarliest_first_only(prev, ts) == IF prev = None THEN ts ELSE Unwrap(prev)

\* Buffer::push_record, the update of the cached minimum
UpdateEarliest(prev, ts) ==
    IF prev = None THEN ts ELSE IF ts < Unwrap(prev) THEN ts ELSE Unwrap(prev)

\* A buffer that holds anything at all counts as having something to dump
\* (a mutant of has_something_to_dump).
has_something_whenever_nonempty(earliest, w) == earliest # None

\* Buffer::dump_safe, has_something_to_dump
has_something_to_dump(earliest, w) ==
    IF earliest = None THEN FALSE ELSE Unwrap(earliest) <= w

\* The merge stopping already at a head equal to the safe timestamp (a
\* mutant of StopsMerge).
StopsMergeAtEqual(ts, w) == ts >= w

\* Buffer::dump_safe: the merge stops at a head later than the safe timestamp
StopsMerge(ts, w) == ts > w

\* The first reader that has a head, whatever its timestamp (a mutant of
\* reader_with_earliest_timestamp).
reader_with_first_head(readers) ==
    LET cand == {i \in 1..Len(readers) : Last(readers[i]) # None}
    IN IF cand = {} THEN 0 ELSE CHOOSE i \in cand : \A j \in cand : i <= j

\* The last of the readers whose head has the smallest timestamp, as
\* max_by_key would break the tie (a mutant of
\* reader_with_earliest_timestamp).
reader_with_earliest_timestamp_last(readers) ==
    LET cand == {i \in 1..Len(readers) : Last(readers[i]) # None}
        key(i) == timestamp(Unwrap(Last(readers[i])))
    IN IF cand = {} THEN 0
       ELSE CHOOSE i \in cand :
                \A j \in cand : key(i) < key(j) \/ (key(i) = key(j) /\ i >= j)

\* Buffer::dump_safe, reader_with_earliest_timestamp: the index of the first
\* reader among those whose head has the smallest timestamp (min_by_key
\* returns the first minimum); 0 when no reader has a head.
reader_with_earliest_timestamp(readers) ==
    LET cand == {i \in 1..Len(readers) : Last(readers[i]) # None}
        key(i) == timestamp(Unwrap(Last(readers[i])))
    IN IF cand = {} THEN 0
       ELSE CHOOSE i \in cand :
                \A j \in cand : key(i) < key(j) \/ (key(i) = key(j) /\ i <= j)

\* The buffer as a value: the fields of Buffer and of its writer.
BufState ==
    [capacity |-> capacity, in_memory |-> in_memory, files |-> files,
     files_counter |-> files_counter, earliest |-> earliest_buffered_timestamp,
     obuf |-> obuf, output |-> output, failed |-> failed,
     pre_violated |-> pre_violated]

\* A spill that puts the new run in front of the run list (a mutant of
\* dump_in_memory).
dump_in_memory_in_front(b, order) ==
    IF Cardinality(b.in_memory) = 0 THEN b
    ELSE [b EXCEPT !.files_counter = @ + 1,
                   !.in_memory = {},
                   !.files = <<Unwrap(FileStorage_new(order, b.files_counter))>> \o @]

\* A spill that takes a counter value for an empty heap too (a mutant of
\* dump_in_memory).
dump_in_memory_counting_empty(b, order) ==
    IF Cardinality(b.in_memory) = 0 THEN [b EXCEPT !.files_counter = @ + 1]
    ELSE [b EXCEPT !.files_counter = @ + 1,
                   !.in_memory = {},
                   !.files = Append(@, Unwrap(FileStorage_new(order, b.files_counter)))]

\* A spill that names its file by the number of runs held (a mutant of
\* dump_in_memory).
dump_in_memory_named_by_length(b, order) ==
    IF Cardinality(b.in_memory) = 0 THEN b
    ELSE [b EXCEPT !.files_counter = @ + 1,
                   !.in_memory = {},
                   !.files = Append(@, Unwrap(FileStorage_new(order, Len(b.files))))]

\* Buffer::dump_in_memory; order is the order in which the heap pops.
dump_in_memory(b, order) ==
    IF Cardinality(b.in_memory) = 0 THEN b
    ELSE [b EXCEPT !.files_counter = @ + 1,
                   !.in_memory = {},
                   !.files = Append(@, Unwrap(FileStorage_new(order, b.files_counter)))]

\* Buffer::push_record (with in_memory::Buffer::push); order is the order in
\* which the heap pops if the push fills it.
push_record(b, r, order) ==
    LET len == Cardinality(b.in_memory)
        b1 == [b EXCEPT !.earliest = Some(UpdateEarliest(b.earliest, timestamp(r))),
                        !.pre_violated = @ \/ ~(len < b.capacity),
                        !.capacity = GrowCap(len, @),
                        !.in_memory = @ \cup {r}]
    IN IF is_full(Cardinality(b1.in_memory), b1.capacity)
       THEN dump_in_memory(b1, order)
       ELSE b1

RECURSIVE MergeLoop(_, _, _, _)
\* Buffer::dump_safe, the merge loop: the readers, the records written and
\* their count, the new cached minimum, and whether a read failed.
MergeLoop(readers, w, written, dumped) ==
    LET i == reader_with_earliest_timestamp(readers)
    IN IF i = 0
       THEN [readers |-> readers, written |-> written, dumped |-> dumped,
             earliest |-> None, stopped |-> FALSE, err |-> FALSE]
       ELSE LET record == Unwrap(Last(readers[i]))
            IN IF StopsMerge(timestamp(record), w)
               THEN [readers |-> readers, written |-> written, dumped |-> dumped,
                     earliest |-> Some(timestamp(record)), stopped |-> TRUE, err |-> FALSE]
               ELSE LET rd == read_next(readers[i])
                    IN IF rd.err
                       THEN [readers |-> readers, written |-> Append(written, record),
                             dumped |-> dumped, earliest |-> None, stopped |-> FALSE,
                             err |-> TRUE]
                       ELSE MergeLoop([readers EXCEPT ![i] = rd], w,
                                      Append(written, record), dumped + 1)

\* Buffer::dump_safe: the buffer after the call and the count returned
\* (ok = FALSE: the call returned an error; the drained runs are dropped and
\* what was written stays unflushed in the writer).
dump_safe(b, w, order) ==
    IF ~has_something_to_dump(b.earliest, w)
    THEN [buf |-> b, ret |-> 0, ok |-> TRUE]
    ELSE LET b1 == dump_in_memory(b, order)
             readers == [i \in 1..Len(b1.files) |-> read(b1.files[i])]
         IN IF \E i \in 1..Len(readers) : readers[i].err
            THEN [buf |-> [b1 EXCEPT !.files = <<>>, !.failed = TRUE],
                  ret |-> 0, ok |-> FALSE]
            ELSE LET m == MergeLoop(readers, w, <<>>, 0)
                     closed == [i \in 1..Len(readers) |-> close(m.readers[i])]
                     wr == WriteAll([obuf |-> b1.obuf, output |-> b1.output], m.written)
                     flushed == Writer_flush(wr)
                 IN IF m.err
                    THEN [buf |-> [b1 EXCEPT !.files = <<>>, !.failed = TRUE,
                                             !.obuf = wr.obuf],
                          ret |-> 0, ok |-> FALSE]
                    ELSE [buf |-> [b1 EXCEPT !.earliest = m.earliest,
                                             !.output = flushed.output,
                                             !.obuf = flushed.obuf,
                                             !.files = SelectSeq(closed, LAMBDA f : ~is_empty(f))],
                          ret |-> m.dumped, ok |-> TRUE]

\* The state variables of the buffer take the values of b.
SetBuf(b) ==
    /\ capacity' = b.capacity
    /\ in_memory' = b.in_memory
    /\ files' = b.files
    /\ files_counter' = b.files_counter
    /\ earliest_buffered_timestamp' = b.earliest
    /\ obuf' = b.obuf
    /\ output' = b.output
    /\ failed' = b.failed
    /\ pre_violated' = b.pre_violated

\* The ordinal of the last dump_safe call that wrote a record.
NDumps == IF Len(out_meta) = 0 THEN 0 ELSE out_meta[Len(out_meta)].dump

\* out_meta extended for the records a dump_safe call added to the output.
MetaAfter(newOutput) ==
    out_meta \o [i \in 1..(Len(newOutput) - Len(output)) |->
                    [dump |-> NDumps + 1, pushed |-> total_pushed]]

\* The heap pops in one of these orders if pushing r fills it.
SpillOrders(b, r) ==
    IF is_full(Cardinality(b.in_memory \cup {r}), GrowCap(Cardinality(b.in_memory), b.capacity))
    THEN SortedOrders(b.in_memory \cup {r})
    ELSE {<<>>}

\* Buffer::new, with an output writer just opened (the file is truncated).
InitBuffer ==
    /\ max_in_memory \in 1..MaxMem
    /\ capacity = max_in_memory
    /\ in_memory = {}
    /\ files = <<>>
    /\ files_counter = 0
    /\ earliest_buffered_timestamp = None
    /\ obuf = <<>>
    /\ output = <<>>
    /\ failed = FALSE
    /\ total_pushed = 0
    /\ out_meta = <<>>
    /\ pre_violated = FALSE
    /\ last_call = [op |-> "new", w |-> 0, ret |-> 0]

InitUnit ==
    /\ reader = None
    /\ heads = <<>>
    /\ snap = None
    /\ cycles = 0

InitSink ==
    /\ last_timestamps = [i \in Sources |-> None]
    /\ watermark = None
    /\ notified = <<>>
    /\ received = <<>>
    /\ push_failed = FALSE

\* output::Reader::open on the output file, nothing read yet.
InitOutput ==
    /\ rpos = 0
    /\ read_log = <<>>
    /\ writes = <<>>

\* The threads and channels of run() and of its caller: every channel open
\* and empty, the forwarders spawned, the consumer waiting for a
\* notification.
InitSystem ==
    /\ src_chan = [i \in Sources |-> <<>>]
    /\ src_open = [i \in Sources |-> TRUE]
    /\ fwd_done = [i \in Sources |-> FALSE]
    /\ chan = <<>>
    /\ sink_pc = "loop"
    /\ notif = <<>>
    /\ notif_rx = TRUE
    /\ cons = [pc |-> "recv", left |-> 0, prev |-> None]
    /\ produced = 0
    /\ accepted = 0
    /\ sent = [i \in Sources |-> <<>>]

Init == InitBuffer /\ InitUnit /\ InitSink /\ InitOutput /\ InitSystem

\* A call of Buffer::push_record.
PushRecord(src, ts) ==
    /\ ~failed
    /\ total_pushed < MaxPush
    /\ LET r == MkRecord(src, ts, total_pushed + 1)
       IN \E order \in SpillOrders(BufState, r) :
              SetBuf(push_record(BufState, r, order))
    /\ total_pushed' = total_pushed + 1
    /\ last_call' = [op |-> "push", w |-> 0, ret |-> 0]
    /\ UNCHANGED <<max_in_memory, out_meta, unit_vars, sink_vars, out_vars, sys_vars>>

\* A call of Buffer::dump_safe.
DumpSafe(w) ==
    /\ ~failed
    /\ \E order \in SortedOrders(in_memory) :
           LET d == dump_safe(BufState, w, order)
           IN /\ SetBuf(d.buf)
              /\ out_meta' = MetaAfter(d.buf.output)
              /\ last_call' = [op |-> IF d.ok THEN "dump" ELSE "error", w |-> w, ret |-> d.ret]
    /\ UNCHANGED <<max_in_memory, total_pushed, unit_vars, sink_vars, out_vars, sys_vars>>

Next ==
    \/ \E src \in Sources, ts \in Timestamps : PushRecord(src, ts)
    \/ \E w \in Timestamps : DumpSafe(w)

\* The buffer driven by any sequence of push_record and dump_safe calls.
Spec == Init /\ [][Next]_vars

\* ------------------------------------------------- properties of the buffer

Range(seq) == {seq[i] : i \in 1..Len(seq)}

RECURSIVE SumRemaining(_)
\* The sum of `remaining` over a list of on-disk runs.
SumRemaining(fls) ==
    IF Len(fls) = 0 THEN 0 ELSE fls[1].remaining + SumRemaining(Tail(fls))

\* The resident records: the heap and the unread part of every on-disk run.
Resident == in_memory \cup UNION {Range(Unread(files[i])) : i \in 1..Len(files)}

\* The records the step appended to the output file.
Added == SubSeq(output', Len(output) + 1, Len(output'))

Nondecreasing(seq) ==
    \A i, j \in 1..Len(seq) : i < j => timestamp(seq[i]) <= timestamp(seq[j])

\* C1: the records one dump_safe(w) call appends to the output have
\* nondecreasing timestamps and every one of them is <= w.
C1_DumpSortedBelowWatermark ==
    [][last_call'.op = "dump" =>
          /\ Nondecreasing(Added)
          /\ \A r \in Range(Added) : timestamp(r) <= last_call'.w]_vars

\* A dump_safe call has just merged at least two records of different
\* timestamps that had been pushed out of order, and kept a later one.
C1_Witness ==
    /\ last_call.op = "dump"
    /\ last_call.ret >= 2
    /\ Len(output) >= 2
    /\ timestamp(output[Len(output) - 1]) < timestamp(output[Len(output)])
    /\ output[Len(output) - 1].id > output[Len(output)].id
    /\ Resident # {}

\* C2: dump_safe(w) writes exactly the resident records with timestamp <= w
\* and returns their number; afterwards exactly the resident records with
\* timestamp > w are still resident; when every resident timestamp is <= w,
\* the count is the number of records pushed and not yet emitted and the
\* buffer ends up empty.
C2_DumpWritesExactlyDue ==
    [][last_call'.op = "dump" =>
          LET w == last_call'.w
              due == {r \in Resident : timestamp(r) <= w}
          IN /\ Range(Added) = due
             /\ Len(Added) = Cardinality(due)
             /\ last_call'.ret = Cardinality(due)
             /\ Resident' = Resident \ due
             /\ \A r \in Resident' : timestamp(r) > w
             /\ (due = Resident) =>
                    /\ last_call'.ret = total_pushed - Len(output)
                    /\ in_memory' = {} /\ files' = <<>>]_vars

\* A dump_safe call has just written two records or more, from the heap and
\* from an on-disk run, and left a later record resident.
C2_Witness ==
    /\ last_call.op = "dump"
    /\ last_call.ret >= 2
    /\ Resident # {}
    /\ \A r \in Resident : timestamp(r) > last_call.w
    /\ \E i \in 1..Len(output) : timestamp(output[i]) = last_call.w

\* C3: records pushed minus records written to the output equals the number
\* of resident records: the heap plus the sum of `remaining` over the
\* on-disk runs (while no call has failed).
C3_NoLoss ==
    ~failed =>
        total_pushed - Len(output) = Cardinality(in_memory) + SumRemaining(files)

\* Some records are written, one is in the heap, and an on-disk run is
\* partly read.
C3_Witness ==
    /\ Len(output) >= 1
    /\ in_memory # {}
    /\ \E i \in 1..Len(files) :
           files[i].remaining >= 1 /\ files[i].remaining < Len(files[i].recs)

\* C4: a record pushed once is written to the output at most once (and only
\* pushed records are written).
C4_WrittenAtMostOnce ==
    /\ \A i, j \in 1..Len(output) : i < j => output[i].id # output[j].id
    /\ \A i \in 1..Len(output) : output[i].id \in 1..total_pushed

\* A record was written by a later dump than a record pushed after it: its
\* run was opened, its head peeked and the run closed again by the earlier
\* dump.
C4_Witness ==
    \E i, j \in 1..Len(output) :
        /\ out_meta[i].dump < out_meta[j].dump
        /\ output[j].id < output[i].id
        /\ output[j].id <= out_meta[i].pushed

\* C6: if a record written by a dump_safe call has a smaller timestamp than
\* a record written by an earlier call d, it was pushed after d returned;
\* and a dump whose watermark is not above that of the preceding dump, with
\* no push in between, writes nothing.
C6_InversionOnlyByLaterPush ==
    /\ [](\A i, j \in 1..Len(output) :
            (out_meta[i].dump < out_meta[j].dump
                /\ timestamp(output[j]) < timestamp(output[i]))
            => output[j].id > out_meta[i].pushed)
    /\ [][(last_call.op = "dump" /\ last_call'.op = "dump"
             /\ last_call'.w <= last_call.w)
          => (last_call'.ret = 0 /\ output' = output)]_vars

\* A later dump wrote a record older than one written by an earlier dump.
C6_Witness ==
    \E i, j \in 1..Len(output) :
        /\ out_meta[i].dump < out_meta[j].dump
        /\ timestamp(output[j]) < timestamp(output[i])

\* C7: after every call the heap holds at most max_in_memory records, and
\* every push into the heap found size < capacity.
C7_CapacityBound ==
    /\ Cardinality(in_memory) <= max_in_memory
    /\ ~pre_violated

\* With max_in_memory = 2: a push has spilled the full heap, a later push
\* left one record in the heap.
C7_Witness ==
    /\ max_in_memory = 2
    /\ files_counter >= 1
    /\ Cardinality(in_memory) = 1
    /\ total_pushed >= 3
    /\ last_call.op = "push"

\* C17: dump_safe(w) on a buffer that is empty or whose smallest resident
\* timestamp is greater than w returns 0 and changes nothing: the heap is
\* not spilled, the on-disk runs, the spill-file counter, the cached
\* earliest timestamp, the writer and the output file keep their values.
C17_NothingDueNothingChanged ==
    [][(last_call'.op = "dump" /\ \A r \in Resident : timestamp(r) > last_call'.w)
          => /\ last_call'.ret = 0
             /\ UNCHANGED <<capacity, in_memory, files, files_counter,
                            earliest_buffered_timestamp, obuf, output, failed>>]_vars

\* dump_safe(w) has just returned 0 on a buffer that holds records in the
\* heap and in a partly read on-disk run, all of them later than w, after an
\* earlier dump wrote a record.
C17_Witness ==
    /\ last_call.op = "dump"
    /\ last_call.ret = 0
    /\ in_memory # {}
    /\ \E i \in 1..Len(files) : files[i].remaining < Len(files[i].recs)
    /\ \A r \in Resident : timestamp(r) > last_call.w
    /\ Len(output) >= 1

\* C21: push_record spills iff, after inserting the record, the heap holds
\* exactly max_in_memory records; the spill moves all of them, in
\* nondecreasing timestamp order, into one new on-disk run appended at the
\* end of the run list and leaves the heap empty; a push that does not spill
\* only adds the record to the heap.  So while no dump has written anything
\* (a dump that writes nothing changes nothing), the number of spills is
\* the number of pushes divided by max_in_memory: a spill happens after
\* exactly every max_in_memory-th push.
C21_SpillWhenFull ==
    /\ [][last_call'.op = "push" =>
             IF Cardinality(in_memory) + 1 = max_in_memory
             THEN /\ in_memory' = {}
                  /\ files_counter' = files_counter + 1
                  /\ Len(files') = Len(files) + 1
                  /\ SubSeq(files', 1, Len(files)) = files
                  /\ LET f == files'[Len(files')]
                     IN /\ \E r \in Range(f.recs) :
                               /\ r.id = total_pushed'
                               /\ Range(f.recs) = in_memory \cup {r}
                        /\ Len(f.recs) = max_in_memory
                        /\ Nondecreasing(f.recs)
                        /\ f.remaining = max_in_memory
                        /\ f.pos = 0
             ELSE /\ \E r \in in_memory' :
                         r.id = total_pushed' /\ in_memory' = in_memory \cup {r}
                  /\ Cardinality(in_memory') = Cardinality(in_memory) + 1
                  /\ files' = files
                  /\ files_counter' = files_counter]_vars
    /\ [](Len(output) = 0 =>
             /\ files_counter = total_pushed \div max_in_memory
             /\ Len(files) = files_counter
             /\ Cardinality(in_memory) = total_pushed % max_in_memory
             /\ \A i \in 1..Len(files) :
                    /\ Len(files[i].recs) = max_in_memory
                    /\ \A k \in 1..max_in_memory :
                           files[i].recs[k].id \in ((i - 1) * max_in_memory + 1)..(i * max_in_memory))

\* With max_in_memory = 2 and nothing dumped: the second and the fourth
\* push have spilled, into two runs in the order of the spills; the first
\* run holds records pushed out of timestamp order.
C21_Witness ==
    /\ max_in_memory = 2
    /\ total_pushed = 4
    /\ output = <<>>
    /\ last_call.op = "push"
    /\ Len(files) = 2
    /\ in_memory = {}
    /\ files[1].recs[1].id = 2

\* The smallest timestamp of a non-empty set of records.
MinTimestamp(S) == CHOOSE t \in {timestamp(r) : r \in S} : \A r \in S : t <= timestamp(r)

\* C22: after every successful push_record and dump_safe call the cached
\* earliest_buffered_timestamp is the minimum timestamp over all resident
\* records (the heap and the unread part of every on-disk run), and it is
\* none iff no record is resident.
C22_EarliestIsMinimum ==
    ~failed =>
        /\ (earliest_buffered_timestamp = None) <=> (Resident = {})
        /\ Resident # {} => earliest_buffered_timestamp = Some(MinTimestamp(Resident))

\* A dump has left a run partly read and set the cached minimum to the head
\* it stopped at; a push of a later record has then kept that minimum, which
\* is the timestamp of a record in that run and of no record in the heap.
C22_Witness ==
    /\ last_call.op = "push"
    /\ Len(output) >= 1
    /\ in_memory # {}
    /\ \E i \in 1..Len(files) :
           /\ files[i].remaining < Len(files[i].recs)
           /\ files[i].remaining >= 1
           /\ earliest_buffered_timestamp = Some(timestamp(Unread(files[i])[1]))
    /\ \A r \in in_memory : Some(timestamp(r)) # earliest_buffered_timestamp

\* The run is what drain_into_file makes of the heap S: the records of S,
\* each once, in nondecreasing timestamp order, all of them unread and the
\* cursor at the start of the file.
DrainedFrom(f, S) ==
    /\ Range(f.recs) = S
    /\ Len(f.recs) = Cardinality(S)
    /\ Nondecreasing(f.recs)
    /\ f.remaining = Cardinality(S)
    /\ f.pos = 0

\* The step is a dump_safe call that found something due.
DumpOfDue ==
    /\ last_call'.op = "dump"
    /\ \E r \in Resident : timestamp(r) <= last_call'.w

\* C23: drain_into_file on a non-empty heap makes an on-disk run holding
\* exactly the records of the heap in nondecreasing timestamp order, with
\* remaining = their number and the cursor at the start of the file, and
\* leaves the heap empty (seen at the spill of a push, and at the spill of
\* a dump whose heap records are all later than the watermark, so that the
\* new run is retained untouched); on an empty heap no run is made and the
\* spill-file counter keeps its value.
C23_DrainIntoFile ==
    [][/\ (last_call'.op = "push" /\ files_counter' # files_counter) =>
              /\ in_memory' = {}
              /\ \E r \in Resident' : /\ r.id = total_pushed'
                                      /\ DrainedFrom(files'[Len(files')], in_memory \cup {r})
       /\ (DumpOfDue /\ in_memory # {}) =>
              /\ in_memory' = {}
              /\ files_counter' = files_counter + 1
              /\ (\A r \in in_memory : timestamp(r) > last_call'.w) =>
                     /\ Len(files') >= 1
                     /\ DrainedFrom(files'[Len(files')], in_memory)
                     /\ files'[Len(files')].name = files_counter
       /\ (DumpOfDue /\ in_memory = {}) =>
              /\ in_memory' = {}
              /\ files_counter' = files_counter
              /\ Len(files') <= Len(files)
              /\ \A i \in 1..Len(files') : \E j \in 1..Len(files) :
                     files'[i].name = files[j].name]_vars

\* With max_in_memory = 2: a dump has spilled a heap of one record later
\* than the watermark into a new run and written a record of an older run;
\* an earlier dump, called right after the spill of the second push, found
\* the heap empty and took no counter value.
C23_Witness ==
    /\ max_in_memory = 2
    /\ last_call.op = "dump"
    /\ last_call.ret >= 1
    /\ in_memory = {}
    /\ Len(files) >= 1
    /\ LET f == files[Len(files)]
       IN /\ Len(f.recs) = 1
          /\ f.remaining = 1
          /\ f.name = files_counter - 1
          /\ timestamp(f.recs[1]) > last_call.w
    /\ NDumps >= 2
    /\ out_meta[1].pushed = 2
    /\ files_counter = 2

\* The index, in the run list a dump merges, of the run a resident record
\* is read from: its on-disk run, or the run the heap is spilled into, which
\* is the last of the list.
RunIndexOf(r) ==
    IF \E i \in 1..Len(files) : r \in Range(Unread(files[i]))
    THEN CHOOSE i \in 1..Len(files) : r \in Range(Unread(files[i]))
    ELSE Len(files) + 1

\* The position of a record in its on-disk run (0 for a record of the heap).
PositionOf(r) ==
    IF RunIndexOf(r) <= Len(files)
    THEN CHOOSE k \in 1..Len(files[RunIndexOf(r)].recs) : files[RunIndexOf(r)].recs[k] = r
    ELSE 0

\* C24: every record a dump_safe call writes has, when it is written, the
\* smallest timestamp among the records not yet written (it is the smallest
\* of the present heads); among records of equal timestamp the one of the
\* run with the lower index in the run list is written first, and records
\* of one run are written in the order of its file.
C24_StableMerge ==
    [][last_call'.op = "dump" =>
          /\ \A p \in 1..Len(Added) :
                 \A r \in Resident' : timestamp(Added[p]) <= timestamp(r)
          /\ \A p, q \in 1..Len(Added) :
              p < q =>
                 /\ timestamp(Added[p]) <= timestamp(Added[q])
                 /\ timestamp(Added[p]) = timestamp(Added[q]) =>
                        RunIndexOf(Added[p]) <= RunIndexOf(Added[q])
                 /\ (RunIndexOf(Added[p]) = RunIndexOf(Added[q])
                       /\ RunIndexOf(Added[p]) <= Len(files)) =>
                        PositionOf(Added[p]) < PositionOf(Added[q])]_vars

\* With max_in_memory = 1: a dump has just written three records of equal
\* timestamp, one out of each of three on-disk runs.
C24_Witness ==
    /\ last_call.op = "dump"
    /\ last_call.ret >= 3
    /\ \E i \in 1..(Len(output) - 2) :
           /\ out_meta[i].dump = NDumps
           /\ timestamp(output[i]) = timestamp(output[i + 1])
           /\ timestamp(output[i]) = timestamp(output[i + 2])
           /\ max_in_memory = 1
           /\ out_meta[i].pushed = 3

\* The names (counter values) of the spill files of the runs held.
FileNames(fls) == {fls[i].name : i \in 1..Len(fls)}

\* The step spills the heap: a push that fills it, or a dump that finds
\* something due and the heap not empty.
Spills ==
    \/ last_call'.op = "push" /\ Cardinality(in_memory) + 1 = max_in_memory
    \/ DumpOfDue /\ in_memory # {}

\* C25: the spill-file counter starts at 0 and grows by exactly one per
\* spill (of a push or of a dump) and not otherwise; the file of a spill is
\* named by the value the counter had before it, which is above the name of
\* every file written before; so no name is used twice and the runs held
\* have distinct files.
C25_SpillFileNames ==
    /\ [](total_pushed = 0 => files_counter = 0)
    /\ [](\A i \in 1..Len(files) : files[i].name \in 0..(files_counter - 1))
    /\ [](\A i, j \in 1..Len(files) : i < j => files[i].name < files[j].name)
    /\ [][/\ files_counter' = (IF Spills THEN files_counter + 1 ELSE files_counter)
          /\ FileNames(files') \subseteq FileNames(files) \cup {files_counter}
          /\ (last_call'.op = "push" /\ Spills) => files_counter \in FileNames(files')]_vars

\* Three spills have taken the names 0, 1 and 2, the last of them the
\* spill of a dump; the run named 0 has been read to its end and dropped,
\* the runs held are named 1 and 2.
C25_Witness ==
    /\ files_counter = 3
    /\ FileNames(files) = {1, 2}
    /\ last_call.op = "dump"
    /\ Len(files[2].recs) < max_in_memory

RECURSIVE Advance(_, _)
\* A reader after n further calls of read_next.
Advance(rd, n) == IF n = 0 THEN rd ELSE Advance(read_next(rd), n - 1)

\* The run of the list with the given file name, if it is held.
RunNamed(fls, name) == {fls[i] : i \in {j \in 1..Len(fls) : fls[j].name = name}}

\* C27: the buffer holds only runs that still have unread records: for every
\* run held, remaining is at least 1, at most the length of the run, and
\* equal to that length minus the number of its records written to the
\* output.  A successful dump_safe call keeps, in their order, exactly the
\* runs of which a record is still unread, each with remaining reduced by
\* the number of its records the call wrote, and drops every run it has read
\* to the end.  A reader advanced over a run held by the buffer counts
\* remaining down to 0 and no further: once the run is exhausted the head is
\* none and remaining stays 0.
C27_RetainedRuns ==
    /\ [](~failed =>
             \A i \in 1..Len(files) :
                 LET f == files[i]
                 IN /\ f.remaining >= 1
                    /\ f.remaining <= Len(f.recs)
                    /\ f.remaining = Len(f.recs)
                          - Cardinality(Range(f.recs) \cap Range(output))
                    /\ Range(Unread(f)) \cap Range(output) = {}
                    /\ \A n \in 0..(Len(f.recs) + 1) :
                           LET rd == Advance(read(f), n)
                           IN /\ ~rd.err
                              /\ rd.remaining >= 0
                              /\ rd.remaining = (IF n <= f.remaining
                                                 THEN f.remaining - n ELSE 0)
                              /\ (rd.last = None) <=> (rd.remaining = 0))
    /\ [][last_call'.op = "dump" =>
             /\ \A i \in 1..Len(files) :
                    LET f == files[i]
                        left == Range(Unread(f)) \ Range(Added)
                    IN IF left = {}
                       THEN RunNamed(files', f.name) = {}
                       ELSE /\ Cardinality(RunNamed(files', f.name)) = 1
                            /\ \A g \in RunNamed(files', f.name) :
                                   /\ g.recs = f.recs
                                   /\ g.remaining = Cardinality(left)
                                   /\ Range(Unread(g)) = left
             /\ \A i, j \in 1..Len(files') : i < j => files'[i].name < files'[j].name
             /\ \A i \in 1..Len(files') :
                    \/ files'[i].name \in FileNames(files)
                    \/ /\ files'[i].name = files_counter
                       /\ Range(Unread(files'[i])) = in_memory \ Range(Added)
                       /\ Range(files'[i].recs) = in_memory
             /\ (DumpOfDue /\ in_memory \ Range(Added) # {}) =>
                    RunNamed(files', files_counter) # {}]_vars

\* A dump has just written records of two runs: one it has read to the
\* end and dropped, the other it has kept with one record of two unread.
C27_Witness ==
    /\ last_call.op = "dump"
    /\ files_counter = 2
    /\ FileNames(files) = {1}
    /\ Len(files[1].recs) = 2 /\ files[1].remaining = 1
    /\ \E k \in 1..Len(output) :
           out_meta[k].dump = NDumps /\ output[k] = files[1].recs[1]
    /\ \E k \in 1..Len(output) :
           out_meta[k].dump = NDumps /\ output[k] \notin Range(files[1].recs)

\* ------------------------------------------- one on-disk run, step by step

\* An in-memory heap as the unit tests make it, large enough for MaxPush
\* records, and no run yet.
InitReader ==
    /\ max_in_memory = MaxPush
    /\ capacity = MaxPush
    /\ in_memory = {}
    /\ files = <<>>
    /\ files_counter = 0
    /\ earliest_buffered_timestamp = None
    /\ obuf = <<>>
    /\ output = <<>>
    /\ failed = FALSE
    /\ total_pushed = 0
    /\ out_meta = <<>>
    /\ pre_violated = FALSE
    /\ last_call = [op |-> "new", w |-> 0, ret |-> 0]
    /\ InitUnit
    /\ InitSink
    /\ InitOutput
    /\ InitSystem

unit_frame == <<max_in_memory, files_counter, earliest_buffered_timestamp, obuf,
                output, failed, out_meta, last_call, sink_vars, out_vars, sys_vars>>

\* The file content of the run under test.
RunRecs ==
    IF reader # None THEN Unwrap(reader).recs
    ELSE IF Len(files) > 0 THEN files[1].recs ELSE <<>>

\* in_memory::Buffer::push, before the heap is drained.
UnitPush(src, ts) ==
    /\ Len(files) = 0 /\ reader = None /\ heads = <<>>
    /\ total_pushed < MaxPush
    /\ in_memory' = in_memory \cup {MkRecord(src, ts, total_pushed + 1)}
    /\ pre_violated' = (pre_violated \/ ~(Cardinality(in_memory) < capacity))
    /\ capacity' = GrowCap(Cardinality(in_memory), capacity)
    /\ total_pushed' = total_pushed + 1
    /\ UNCHANGED <<files, unit_vars, unit_frame>>

\* in_memory::Buffer::drain_into_file
UnitDrain ==
    /\ Len(files) = 0 /\ reader = None /\ heads = <<>>
    /\ \E order \in SortedOrders(in_memory) :
           LET fs == FileStorage_new(order, 0)
           IN /\ files' = IF fs = None THEN <<>> ELSE <<Unwrap(fs)>>
              /\ in_memory' = {}
    /\ UNCHANGED <<capacity, total_pushed, pre_violated, unit_vars, unit_frame>>

\* FileStorage::read
UnitOpen ==
    /\ Len(files) = 1 /\ reader = None
    /\ reader' = Some(read(files[1]))
    /\ files' = <<>>
    /\ snap' = Some(files[1])
    /\ heads' = IF heads = <<>> THEN <<Last(read(files[1]))>> ELSE heads
    /\ UNCHANGED <<capacity, in_memory, total_pushed, pre_violated, cycles, unit_frame>>

\* FileStorageReader::read_next
UnitReadNext ==
    /\ reader # None /\ ~Unwrap(reader).err
    /\ reader' = Some(read_next(Unwrap(reader)))
    /\ heads' = IF Len(heads) < Len(RunRecs) + 2
                THEN Append(heads, Last(read_next(Unwrap(reader))))
                ELSE heads
    /\ snap' = None
    /\ cycles' = 0
    /\ UNCHANGED <<capacity, in_memory, files, total_pushed, pre_violated, unit_frame>>

\* FileStorageReader::close
UnitClose ==
    /\ reader # None /\ ~Unwrap(reader).err
    /\ files' = <<close(Unwrap(reader))>>
    /\ reader' = None
    /\ cycles' = IF snap = None THEN 0
                 ELSE IF cycles < MaxCycles THEN cycles + 1 ELSE cycles
    /\ UNCHANGED <<capacity, in_memory, total_pushed, pre_violated, heads, snap, unit_frame>>

NextReader ==
    \/ \E src \in Sources, ts \in Timestamps : UnitPush(src, ts)
    \/ UnitDrain
    \/ UnitOpen
    \/ UnitReadNext
    \/ UnitClose

\* One on-disk run made from a heap and read through open / read_next /
\* close in any order.
SpecReader == InitReader /\ [][NextReader]_vars

\* The next unread record of a closed run, by its count of remaining records.
NextUnread(fs) ==
    IF fs.remaining = 0 THEN None ELSE Some(fs.recs[Len(fs.recs) - fs.remaining + 1])

\* C8: open -> head -> close cycles without read_next always report the
\* next unread record of the run and leave `remaining` and the parked
\* offset unchanged; close parks the file at the first byte of the cached
\* head (at the end of the data when there is none).
C8_ResumablePeek ==
    /\ (reader # None /\ snap # None) =>
           /\ Last(Unwrap(reader)) = NextUnread(Unwrap(snap))
           /\ Unwrap(reader).remaining = Unwrap(snap).remaining
    /\ (reader = None /\ snap # None /\ Len(files) = 1) => files[1] = Unwrap(snap)
    /\ (reader = None /\ Len(files) = 1) =>
           files[1].pos = Offset(files[1].recs,
                                 Len(files[1].recs) - files[1].remaining + 1)

\* A run of records of different serialized lengths, partly read, has been
\* through MaxCycles open/close cycles in a row and is open again.
C8_Witness ==
    /\ reader # None /\ snap # None
    /\ cycles = MaxCycles
    /\ Unwrap(snap).pos > 0
    /\ Unwrap(snap).remaining >= 2
    /\ \E i, j \in 1..Len(RunRecs) : SerLen(RunRecs[i]) # SerLen(RunRecs[j])
    /\ Last(Unwrap(reader)) # None

\* C9: the heads seen at the first open and after each read_next are the
\* records of the run in file order, then none; the head of a reader,
\* reopened or not, is the last one seen; heads are nondecreasing; once the
\* head is none the closed run is empty.
C9_HeadsInFileOrder ==
    /\ \A i \in 1..Len(heads) :
           heads[i] = IF i <= Len(RunRecs) THEN Some(RunRecs[i]) ELSE None
    /\ Nondecreasing(RunRecs)
    /\ reader # None =>
           /\ ~Unwrap(reader).err
           /\ Len(heads) > 0
           /\ Last(Unwrap(reader)) = heads[Len(heads)]
    /\ (Len(files) = 1 /\ Len(heads) > 0) =>
           /\ files[1].remaining = IF Len(heads) > Len(RunRecs) THEN 0
                                   ELSE Len(RunRecs) - Len(heads) + 1
           /\ (Len(heads) > Len(RunRecs)) => is_empty(files[1])

\* A run of three records or more with two timestamps was read to its end,
\* closed and reopened on the way, and is closed.
C9_Witness ==
    /\ Len(files) = 1
    /\ Len(RunRecs) >= 3
    /\ timestamp(RunRecs[1]) < timestamp(RunRecs[Len(RunRecs)])
    /\ Len(heads) = Len(RunRecs) + 1
    /\ cycles >= 1

\* --------------------------------------------------------- the sink loop

Min2(x, y) == IF x <= y THEN x ELSE y

RECURSIVE try_fold(_, _)
\* Iterator::try_fold with the closure of find_earliest_timestamp: a none
\* item breaks with None, a timestamp continues with the smaller of it and
\* the accumulator.
try_fold(items, acc) ==
    IF Len(items) = 0 THEN [flow |-> "Continue", value |-> acc]
    ELSE IF Head(items) = None THEN [flow |-> "Break", value |-> None]
    ELSE LET x == Unwrap(Head(items))
         IN try_fold(Tail(items), Some(IF acc = None THEN x ELSE Min2(x, Unwrap(acc))))

\* The latest of the timestamps instead of the earliest (a mutant of
\* find_earliest_timestamp).
find_latest_timestamp(items) ==
    IF \E i \in 1..Len(items) : items[i] = None THEN None
    ELSE IF Len(items) = 0 THEN None
    ELSE Some(CHOOSE x \in {Unwrap(items[i]) : i \in 1..Len(items)} :
                  \A i \in 1..Len(items) : Unwrap(items[i]) <= x)

\* The earliest of the timestamps present, none items skipped (a mutant of
\* find_earliest_timestamp).
find_earliest_skipping_none(items) ==
    LET present == {Unwrap(items[i]) : i \in {j \in 1..Len(items) : items[j] # None}}
    IN IF present = {} THEN None
       ELSE Some(CHOOSE x \in present : \A y \in present : x <= y)

\* find_earliest_timestamp
find_earliest_timestamp(items) ==
    LET r == try_fold(items, None)
    IN IF r.flow = "Continue" /\ r.value # None THEN Some(Unwrap(r.value)) ELSE None

\* A loop that records the timestamp only for a source seen for the first
\* time (a mutant of UpdateLast).
UpdateLast_first_only(last, r) ==
    IF last[r.src] = None THEN [last EXCEPT ![r.src] = Some(timestamp(r))] ELSE last

\* UnsortedDataSinkLoop::run: last_timestamps[idx] = Some(record.timestamp()),
\* idx the variant of the record.
UpdateLast(last, r) == [last EXCEPT ![r.src] = Some(timestamp(r))]

\* Buffer::try_dump, which lib.rs calls and buffer.rs does not define:
\* dump_safe, its count returned.
try_dump(b, w, order) == dump_safe(b, w, order)

\* UnsortedDataSinkLoop::run, the body of the receive loop up to the call of
\* try_dump, for a record of variant src with timestamp ts; the count
\* returned is left in last_call.
SinkIteration(src, ts) ==
    /\ LET r == MkRecord(src, ts, total_pushed + 1)
           last == UpdateLast(last_timestamps, r)
           wm == find_earliest_timestamp(last)
       IN /\ last_timestamps' = last
          /\ watermark' = wm
          /\ received' = Append(received, r)
          /\ \E o1 \in SpillOrders(BufState, r) :
                 LET b1 == push_record(BufState, r, o1)
                 IN IF wm = None
                    THEN /\ SetBuf(b1)
                         /\ last_call' = [op |-> "push", w |-> 0, ret |-> 0]
                         /\ UNCHANGED out_meta
                    ELSE \E o2 \in SortedOrders(b1.in_memory) :
                             LET d == try_dump(b1, Unwrap(wm), o2)
                             IN /\ SetBuf(d.buf)
                                /\ out_meta' = MetaAfter(d.buf.output)
                                /\ last_call' = [op |-> IF d.ok THEN "dump" ELSE "error",
                                                 w |-> Unwrap(wm), ret |-> d.ret]
    /\ total_pushed' = total_pushed + 1

\* A count one above the one try_dump returned (a mutant of Count).
Count_off_by_one(call) == IF call.op \in {"dump", "error"} THEN call.ret + 1 ELSE 0

\* The count the iteration got from try_dump (0 when it did not call it).
Count(call) == IF call.op \in {"dump", "error"} THEN call.ret ELSE 0

\* UnsortedDataSinkLoop::run, one iteration of the receive loop for a record
\* of variant src with timestamp ts taken from the unified channel, the
\* notification receiver being alive.
SinkRecv(src, ts) ==
    /\ ~failed
    /\ total_pushed < MaxPush
    /\ SinkIteration(src, ts)
    /\ notified' = IF Count(last_call') > 0 THEN Append(notified, Count(last_call'))
                   ELSE notified
    /\ UNCHANGED <<max_in_memory, push_failed, unit_vars, out_vars, sys_vars>>

NextSink == \E src \in Sources, ts \in Timestamps : SinkRecv(src, ts)

\* The sink loop fed any sequence of records of any sources.
SpecSink == Init /\ [][NextSink]_vars

\* The timestamp of the last record of source i in a sequence of records.
LastOf(seq, i) ==
    LET at == {k \in 1..Len(seq) : seq[k].src = i}
    IN IF at = {} THEN None
       ELSE Some(timestamp(seq[CHOOSE k \in at : \A l \in at : l <= k]))

\* Every source delivered its own records with nondecreasing timestamps.
MonotoneSources ==
    \A i, j \in 1..Len(received) :
        (i < j /\ received[i].src = received[j].src)
            => timestamp(received[i]) <= timestamp(received[j])

\* C5, as claimed: the whole output stream of the sink is in nondecreasing
\* timestamp order, whatever the order of the timestamps of a source.
C5_OutputSorted == Nondecreasing(output)

\* C5, amended: the whole output stream of the sink is in nondecreasing
\* timestamp order when every source delivers its own records with
\* nondecreasing timestamps (the sources being out of order with each other).
C5_OutputSortedForMonotoneSources == MonotoneSources => Nondecreasing(output)

\* Two dumps or more wrote three records or more, from sources each in
\* order, that were received out of timestamp order.
C5_Witness ==
    /\ MonotoneSources
    /\ Len(output) >= 3
    /\ NDumps >= 2
    /\ timestamp(output[1]) < timestamp(output[Len(output)])
    /\ \E i, j \in 1..Len(received) :
           i < j /\ timestamp(received[i]) > timestamp(received[j])

\* C10: the watermark the loop computes is none iff some source entry is
\* none, and otherwise the minimum of the entries; each entry is the
\* timestamp of the record last received from its source.
C10_Watermark ==
    /\ (watermark = None) <=> (\E i \in Sources : last_timestamps[i] = None)
    /\ watermark # None =>
           /\ \E i \in Sources : last_timestamps[i] = watermark
           /\ \A i \in Sources : Unwrap(watermark) <= Unwrap(last_timestamps[i])
    /\ \A i \in Sources : last_timestamps[i] = LastOf(received, i)

\* The watermark is defined and is the last timestamp of a source that
\* delivered a later timestamp before; the other source is ahead.
C10_Witness ==
    /\ watermark # None
    /\ \E k \in 1..Len(received) :
           /\ timestamp(received[k]) > Unwrap(watermark)
           /\ last_timestamps[received[k].src] = watermark
    /\ \E i \in Sources : Unwrap(last_timestamps[i]) > Unwrap(watermark)

\* The sources that have delivered at least one record to the loop.
Delivered == {received[k].src : k \in 1..Len(received)}

\* C11: until every source has delivered at least one record, the sink loop
\* has not invoked dump_safe, nothing is written to the writer or the output
\* file, and nothing is announced, however many records the other sources
\* delivered.
C11_NothingBeforeAllDelivered ==
    (Delivered # Sources) =>
        /\ last_call.op \in {"new", "push"}
        /\ watermark = None
        /\ output = <<>> /\ obuf = <<>>
        /\ notified = <<>>
        /\ total_pushed = Len(received)

\* One source has delivered MaxPush records, some of them spilled to disk,
\* the other none: the output is still empty.
C11_Witness ==
    /\ Delivered # Sources
    /\ Len(received) = MaxPush
    /\ Len(files) >= 1
    /\ \E i, j \in 1..Len(received) : timestamp(received[i]) # timestamp(received[j])
    /\ output = <<>>

\* ------------------------------------------ the sink loop and I/O failures

\* Buffer::dump_in_memory when drain_into_file returns an error after the
\* heap has popped k records of order (k = 0: the file could not be opened;
\* k = Len(order): the last write, the flush or the seek failed):
\* files_counter is already incremented, the records popped are gone and no
\* run is added.
dump_in_memory_failing(b, order, k) ==
    [b EXCEPT !.files_counter = @ + 1,
              !.in_memory = @ \ {order[j] : j \in 1..k}]

\* Buffer::push_record when the push fills the heap and the spill fails
\* after k pops: the call returns the error.
push_record_failing(b, r, order, k) ==
    LET len == Cardinality(b.in_memory)
        b1 == [b EXCEPT !.earliest = Some(UpdateEarliest(b.earliest, timestamp(r))),
                        !.pre_violated = @ \/ ~(len < b.capacity),
                        !.capacity = GrowCap(len, @),
                        !.in_memory = @ \cup {r}]
    IN dump_in_memory_failing(b1, order, k)

\* Buffer::dump_safe when the spill of the heap at its start fails after k
\* pops: the call returns the error before any run is opened.
dump_safe_failing_spill(b, order, k) ==
    [dump_in_memory_failing(b, order, k) EXCEPT !.failed = TRUE]

\* Buffer::dump_safe when a write to the output or a read of a run fails
\* after j records have been written: the runs, drained out of the buffer,
\* are dropped and what was written stays unflushed in the writer.
dump_safe_failing_merge(b, w, order, j) ==
    LET b1 == dump_in_memory(b, order)
        readers == [i \in 1..Len(b1.files) |-> read(b1.files[i])]
        m == MergeLoop(readers, w, <<>>, 0)
        wr == WriteAll([obuf |-> b1.obuf, output |-> b1.output], SubSeq(m.written, 1, j))
    IN [b1 EXCEPT !.files = <<>>, !.failed = TRUE, !.obuf = wr.obuf]

\* The number of records dump_safe writes for w when nothing fails.
DueCount(b, w, order) == dump_safe(b, w, order).ret

\* UnsortedDataSinkLoop::run, an iteration in which nothing fails.
SinkRecvOk(src, ts) ==
    /\ sink_pc = "loop"
    /\ Cardinality(in_memory) < capacity
    /\ SinkRecv(src, ts)

\* UnsortedDataSinkLoop::run, an iteration in which the spill performed by
\* push_record fails after k pops: the Result of push_record is not looked
\* at, the iteration goes on to find_earliest_timestamp and try_dump.
SinkRecvSpillFails(src, ts) ==
    /\ sink_pc = "loop"
    /\ ~failed
    /\ total_pushed < MaxPush
    /\ Cardinality(in_memory) < capacity
    /\ LET r == MkRecord(src, ts, total_pushed + 1)
           last == UpdateLast(last_timestamps, r)
           wm == find_earliest_timestamp(last)
       IN /\ last_timestamps' = last
          /\ watermark' = wm
          /\ received' = Append(received, r)
          /\ \E o1 \in SpillOrders(BufState, r) :
                 /\ o1 # <<>>
                 /\ \E k \in 0..Len(o1) :
                        LET b1 == push_record_failing(BufState, r, o1, k)
                        IN IF wm = None
                           THEN /\ SetBuf(b1)
                                /\ last_call' = [op |-> "push_error", w |-> 0, ret |-> 0]
                                /\ UNCHANGED out_meta
                           ELSE \E o2 \in SortedOrders(b1.in_memory) :
                                    LET d == try_dump(b1, Unwrap(wm), o2)
                                    IN /\ SetBuf(d.buf)
                                       /\ out_meta' = MetaAfter(d.buf.output)
                                       /\ last_call' = [op |-> IF d.ok THEN "dump" ELSE "error",
                                                        w |-> Unwrap(wm), ret |-> d.ret]
    /\ total_pushed' = total_pushed + 1
    /\ push_failed' = TRUE
    /\ notified' = IF Count(last_call') > 0 THEN Append(notified, Count(last_call'))
                   ELSE notified
    /\ UNCHANGED <<max_in_memory, unit_vars, out_vars, sys_vars>>

\* UnsortedDataSinkLoop::run, an iteration in which push_record succeeds
\* and try_dump fails, in the spill at its start or after j records were
\* written: the failure ends the loop.
SinkRecvDumpFails(src, ts) ==
    /\ sink_pc = "loop"
    /\ ~failed
    /\ total_pushed < MaxPush
    /\ Cardinality(in_memory) < capacity
    /\ LET r == MkRecord(src, ts, total_pushed + 1)
           last == UpdateLast(last_timestamps, r)
           wm == find_earliest_timestamp(last)
       IN /\ wm # None
          /\ last_timestamps' = last
          /\ watermark' = wm
          /\ received' = Append(received, r)
          /\ \E o1 \in SpillOrders(BufState, r) :
                 LET b1 == push_record(BufState, r, o1)
                 IN /\ has_something_to_dump(b1.earliest, Unwrap(wm))
                    /\ \E o2 \in SortedOrders(b1.in_memory) :
                           \/ /\ o2 # <<>>
                              /\ \E k \in 0..Len(o2) :
                                     SetBuf(dump_safe_failing_spill(b1, o2, k))
                           \/ \E j \in 0..DueCount(b1, Unwrap(wm), o2) :
                                  SetBuf(dump_safe_failing_merge(b1, Unwrap(wm), o2, j))
          /\ last_call' = [op |-> "error", w |-> Unwrap(wm), ret |-> 0]
    /\ total_pushed' = total_pushed + 1
    /\ sink_pc' = "failed"
    /\ UNCHANGED <<max_in_memory, out_meta, notified, push_failed, unit_vars, out_vars,
                   src_chan, src_open, fwd_done, chan, notif, notif_rx, cons,
                   produced, accepted, sent>>

\* UnsortedDataSinkLoop::run, an iteration that finds the heap at its
\* capacity, left so by a spill that failed before its first pop.  A build
\* with debug assertions panics in in_memory::Buffer::push; a build without
\* them pushes and the heap grows.
SinkRecvHeapFull(src, ts) ==
    /\ sink_pc = "loop"
    /\ ~(Cardinality(in_memory) < capacity)
    /\ \/ SinkRecv(src, ts)
       \/ /\ ~failed
          /\ total_pushed < MaxPush
          /\ LET r == MkRecord(src, ts, total_pushed + 1)
             IN /\ last_timestamps' = UpdateLast(last_timestamps, r)
                /\ received' = Append(received, r)
                /\ earliest_buffered_timestamp' =
                       Some(UpdateEarliest(earliest_buffered_timestamp, ts))
          /\ last_call' = [op |-> "panic", w |-> 0, ret |-> 0]
          /\ sink_pc' = "panicked"
          /\ UNCHANGED <<max_in_memory, capacity, in_memory, files, files_counter, obuf,
                         output, failed, total_pushed, out_meta, pre_violated,
                         watermark, notified, push_failed, unit_vars, out_vars,
                         src_chan, src_open, fwd_done, chan, notif, notif_rx, cons,
                         produced, accepted, sent>>

NextSinkIo ==
    \E src \in Sources, ts \in Timestamps :
        \/ SinkRecvOk(src, ts)
        \/ SinkRecvSpillFails(src, ts)
        \/ SinkRecvDumpFails(src, ts)
        \/ SinkRecvHeapFull(src, ts)

\* The sink loop fed any sequence of records, its notification receiver
\* alive, with I/O failures in the spill of push_record and in try_dump.
SpecSinkIo == Init /\ [][NextSinkIo]_vars

\* C18: after an I/O failure inside the buffer (in the spill performed by
\* push_record, or in the dump) the sink pushes no further record, appends
\* nothing more to the output and sends no further notification.
C18_IoFailureIsFatal ==
    [][(push_failed \/ failed) =>
           /\ total_pushed' = total_pushed
           /\ output' = output
           /\ notified' = notified]_vars

\* What holds of the failures of the dump: the loop has ended and nothing
\* changes any more.
C18_DumpFailureIsFatal == [][failed => UNCHANGED vars]_vars

\* ---------------------------------------------- the threads of the system

\* A send that succeeds whether or not the receiver is alive (a mutant of
\* send).
send_unchecked(ch, rx_alive, msg) == [ok |-> TRUE, ch |-> Append(ch, msg)]

\* A channel that hands out the value sent last first (a mutant of send).
send_in_front(ch, rx_alive, msg) ==
    IF rx_alive THEN [ok |-> TRUE, ch |-> <<msg>> \o ch]
    ELSE [ok |-> FALSE, ch |-> ch]

\* mpsc::Sender::send on an unbounded channel: the value is queued, or an
\* error is returned (and the value discarded) when the receiver is gone.
send(ch, rx_alive, msg) ==
    IF rx_alive THEN [ok |-> TRUE, ch |-> Append(ch, msg)]
    ELSE [ok |-> FALSE, ch |-> ch]

\* A receive that keeps waiting on an empty channel whose senders are gone
\* (a mutant of recv).
recv_never_closed(ch, tx_alive) == IF Len(ch) > 0 THEN "ok" ELSE "blocked"

\* mpsc::Receiver::recv: a value when one is queued; an error when the
\* channel is empty and every sender is gone; otherwise the caller waits.
recv(ch, tx_alive) ==
    IF Len(ch) > 0 THEN "ok" ELSE IF tx_alive THEN "blocked" ELSE "closed"

\* The receiver of the unified channel lives as long as the receive loop.
UnifiedRxAlive == sink_pc = "loop"

\* run() has returned: the loop is over and the scope has joined every
\* forwarder thread.
Returned == sink_pc # "loop" /\ \A i \in Sources : fwd_done[i]

sys_frame == <<max_in_memory, unit_vars, writes, sent>>

\* A producer sends a value with timestamp ts on the channel of source i.
Produce(i, ts) ==
    /\ src_open[i]
    /\ produced < MaxSend
    /\ LET s == send(src_chan[i], ~fwd_done[i], ts)
       IN /\ src_chan' = [src_chan EXCEPT ![i] = s.ch]
          /\ accepted' = IF s.ok THEN accepted + 1 ELSE accepted
          /\ sent' = IF s.ok THEN [sent EXCEPT ![i] = Append(@, ts)] ELSE sent
    /\ produced' = produced + 1
    /\ UNCHANGED <<src_open, fwd_done, chan, sink_pc, notif, notif_rx, cons,
                   buf_vars, sink_vars, rpos, read_log, unit_vars, writes>>

\* The producer of source i drops its sender: the channel is closed.
CloseSource(i) ==
    /\ src_open[i]
    /\ src_open' = [src_open EXCEPT ![i] = FALSE]
    /\ UNCHANGED <<src_chan, fwd_done, chan, sink_pc, notif, notif_rx, cons,
                   produced, accepted, buf_vars, sink_vars, rpos, read_log, sys_frame>>

\* channel_data_as_record, one iteration: a value is received from the
\* source channel and sent as a record on the unified channel; a failed
\* send ends the thread.
Forward(i) ==
    /\ ~fwd_done[i]
    /\ recv(src_chan[i], src_open[i]) = "ok"
    /\ LET s == send(chan, UnifiedRxAlive, [src |-> i, ts |-> Head(src_chan[i])])
       IN /\ chan' = s.ch
          /\ fwd_done' = [fwd_done EXCEPT ![i] = ~s.ok]
    /\ src_chan' = [src_chan EXCEPT ![i] = IF fwd_done'[i] THEN <<>> ELSE Tail(@)]
    /\ UNCHANGED <<src_open, sink_pc, notif, notif_rx, cons, produced, accepted,
                   buf_vars, sink_vars, rpos, read_log, sys_frame>>

\* channel_data_as_record: the source channel is closed and empty, the
\* thread ends and drops its sender of the unified channel; the values
\* still queued for a receiver that is gone are dropped with it.
ForwarderExit(i) ==
    /\ ~fwd_done[i]
    /\ recv(src_chan[i], src_open[i]) = "closed"
    /\ fwd_done' = [fwd_done EXCEPT ![i] = TRUE]
    /\ UNCHANGED <<src_chan, src_open, chan, sink_pc, notif, notif_rx, cons,
                   produced, accepted, buf_vars, sink_vars, rpos, read_log, sys_frame>>

\* UnsortedDataSinkLoop::run, one iteration of the receive loop: the record
\* at the head of the unified channel is pushed, the watermark computed,
\* try_dump called and a positive count sent to the consumer; a failed send
\* breaks the loop.
SinkIter ==
    /\ sink_pc = "loop"
    /\ recv(chan, \E i \in Sources : ~fwd_done[i]) = "ok"
    /\ SinkIteration(Head(chan).src, Head(chan).ts)
    /\ LET count == Count(last_call')
           s == send(notif, notif_rx, count)
       IN IF last_call'.op = "error"
          THEN sink_pc' = "failed" /\ UNCHANGED <<notif, notified>>
          ELSE IF count > 0
          THEN /\ notif' = s.ch
               /\ notified' = IF s.ok THEN Append(notified, count) ELSE notified
               /\ sink_pc' = IF s.ok THEN "loop" ELSE "broke"
          ELSE UNCHANGED <<notif, notified, sink_pc>>
    /\ chan' = IF sink_pc' = "loop" THEN Tail(chan) ELSE <<>>
    /\ UNCHANGED <<src_chan, src_open, fwd_done, notif_rx, cons, produced, accepted,
                   push_failed, rpos, read_log, sys_frame>>

\* UnsortedDataSinkLoop::run: the unified channel is empty and every
\* forwarder has dropped its sender, the loop ends.
SinkExit ==
    /\ sink_pc = "loop"
    /\ recv(chan, \E i \in Sources : ~fwd_done[i]) = "closed"
    /\ sink_pc' = "closed"
    /\ UNCHANGED <<src_chan, src_open, fwd_done, chan, notif, notif_rx, cons,
                   produced, accepted, buf_vars, sink_vars, rpos, read_log, sys_frame>>

\* A consumer that carries prev over from the batch before (a mutant of
\* prev_before_batch).
prev_kept_across_batches(prev) == prev

\* SortedOutputListenLoop::run: prev is a variable of the loop body, set
\* from the first record of the batch; nothing is carried over from the
\* batch before.
prev_before_batch(prev) == None

\* The consumer panics: its thread unwinds and drops the receiver with the
\* notifications still queued.
ConsumerStops(pc) ==
    /\ cons' = [pc |-> pc, left |-> 0, prev |-> None]
    /\ notif_rx' = FALSE
    /\ notif' = <<>>

\* SortedOutputListenLoop::run: a notification is received.
ConsumerRecv ==
    /\ cons.pc = "recv"
    /\ recv(notif, ~Returned) = "ok"
    /\ cons' = [pc |-> "read", left |-> Head(notif), prev |-> prev_before_batch(cons.prev)]
    /\ notif' = Tail(notif)
    /\ UNCHANGED <<src_chan, src_open, fwd_done, chan, sink_pc, notif_rx, produced,
                   accepted, buf_vars, sink_vars, rpos, read_log, sys_frame>>

\* SortedOutputListenLoop::run: one record of the batch is read; a failed
\* read panics (expect), a record earlier than the one before it in the
\* batch fails the assertion.
ConsumerRead ==
    /\ cons.pc = "read"
    /\ LET r == Reader_read(output, rpos)
           ts == timestamp(Unwrap(r.record))
       IN IF ~r.ok
          THEN ConsumerStops("read_failed") /\ UNCHANGED <<rpos, read_log>>
          ELSE /\ rpos' = r.pos
               /\ read_log' = Append(read_log, Unwrap(r.record))
               /\ IF cons.prev # None /\ ~(ts >= Unwrap(cons.prev))
                  THEN ConsumerStops("assert_failed")
                  ELSE /\ cons' = IF cons.left = 1
                                  THEN [pc |-> "recv", left |-> 0, prev |-> Some(ts)]
                                  ELSE [pc |-> "read", left |-> cons.left - 1,
                                        prev |-> Some(ts)]
                       /\ UNCHANGED <<notif, notif_rx>>
    /\ UNCHANGED <<src_chan, src_open, fwd_done, chan, sink_pc, produced, accepted,
                   buf_vars, sink_vars, sys_frame>>

\* SortedOutputListenLoop::run: run() has returned and dropped the sender,
\* the notification channel is empty, the loop ends.
ConsumerExit ==
    /\ cons.pc = "recv"
    /\ recv(notif, ~Returned) = "closed"
    /\ cons' = [pc |-> "done", left |-> 0, prev |-> None]
    /\ notif_rx' = FALSE
    /\ UNCHANGED <<src_chan, src_open, fwd_done, chan, sink_pc, notif, produced,
                   accepted, buf_vars, sink_vars, rpos, read_log, sys_frame>>

\* The owner of the notification receiver drops it while the sink runs.
DropNotifyReceiver ==
    /\ notif_rx
    /\ cons.pc \in {"recv", "read"}
    /\ ConsumerStops("dropped")
    /\ UNCHANGED <<src_chan, src_open, fwd_done, chan, sink_pc, produced, accepted,
                   buf_vars, sink_vars, rpos, read_log, sys_frame>>

NextSystem ==
    \/ \E i \in Sources, ts \in Timestamps : Produce(i, ts)
    \/ \E i \in Sources : CloseSource(i)
    \/ \E i \in Sources : Forward(i)
    \/ \E i \in Sources : ForwarderExit(i)
    \/ SinkIter
    \/ SinkExit
    \/ ConsumerRecv
    \/ ConsumerRead
    \/ ConsumerExit
    \/ DropNotifyReceiver

\* The producers, the forwarders, the sink loop and the consumer running
\* in parallel.
SpecSystem == Init /\ [][NextSystem]_vars

RECURSIVE SumSeq(_)
SumSeq(seq) == IF Len(seq) = 0 THEN 0 ELSE Head(seq) + SumSeq(Tail(seq))

\* C12: every count sent is the number of records the iteration's dump_safe
\* call appended to the output file (all of them flushed) and is what that
\* call returned, never 0; a dump that appended records is followed by a
\* send (which fails and breaks the loop if the receiver is gone); while no
\* send has failed, the counts sent add up to the records in the output.
C12_CountMatchesAppended ==
    /\ [][notified' # notified =>
              /\ notified' = Append(notified, Len(output') - Len(output))
              /\ Len(output') - Len(output) > 0
              /\ last_call'.op = "dump" /\ last_call'.ret = Len(output') - Len(output)
              /\ obuf' = <<>>]_vars
    /\ [][Len(output') > Len(output) =>
              \/ notified' = Append(notified, Len(output') - Len(output))
              \/ (~notif_rx /\ sink_pc' = "broke" /\ notified' = notified)]_vars
    /\ [](\A k \in 1..Len(notified) : notified[k] > 0)
    /\ [](sink_pc \in {"loop", "closed"} => SumSeq(notified) = Len(output))

\* A count of two or more was sent, a later iteration called dump_safe and
\* got 0, and no further notification was sent for it.
C12_Witness ==
    /\ \E k \in 1..Len(notified) : notified[k] >= 2
    /\ last_call.op = "dump" /\ last_call.ret = 0
    /\ Len(received) > Len(output)
    /\ SumSeq(notified) = Len(output)
    /\ sink_pc = "loop"

\* C13: whatever the interleaving of the sink and the consumer, the records
\* the consumer has read and those it still has to read for the
\* notification it holds are all flushed to the output file: its byte
\* position is the first byte of a record within the flushed data, what it
\* read are the records of the file in order, the read it is about to make
\* succeeds, and no read has failed.
C13_ReadsWithinFlushed ==
    /\ cons.pc # "read_failed"
    /\ Len(read_log) + cons.left + SumSeq(notif) <= Len(output)
    /\ rpos = Offset(output, Len(read_log) + 1)
    /\ read_log = SubSeq(output, 1, Len(read_log))
    /\ cons.pc = "read" => (cons.left >= 1 /\ Reader_read(output, rpos).ok)

\* The consumer is in the middle of a batch of records of different
\* serialized lengths while the sink has already appended the next batch
\* and queued its notification.
C13_Witness ==
    /\ cons.pc = "read"
    /\ Len(read_log) >= 1
    /\ Len(notif) >= 1
    /\ Len(output) > Len(read_log) + cons.left
    /\ \E i, j \in 1..Len(output) : SerLen(output[i]) # SerLen(output[j])

\* Every source channel is closed and run() has returned.
Terminated == Returned /\ \A i \in Sources : ~src_open[i]

\* C15: when the sink has terminated after all source channels closed and a
\* watermark was computed, every record the sink received with a timestamp
\* <= the last watermark is in the output, every record left in the buffer
\* has a timestamp greater than the last watermark, and each record
\* received is either in the output or in the buffer.
C15_FanInCompleteness ==
    (Terminated /\ watermark # None) =>
        /\ \A k \in 1..Len(received) :
               timestamp(received[k]) <= Unwrap(watermark)
                   => received[k] \in Range(output)
        /\ \A r \in Resident : timestamp(r) > Unwrap(watermark)
        /\ Range(received) = Range(output) \cup Resident
        /\ obuf = <<>>

\* The sink has terminated because every source channel was closed; it
\* wrote some of the records it received, in more than one dump, and
\* others, later than the last watermark, are left in the buffer.
C15_Witness ==
    /\ Terminated
    /\ sink_pc = "closed"
    /\ watermark # None
    /\ Len(notified) >= 2
    /\ Resident # {}

\* The part of SinkIter that takes the record from the unified channel: the
\* iteration can run exactly when this can, and every step that appends to
\* `received` is an iteration.
SinkReceives ==
    /\ sink_pc = "loop"
    /\ recv(chan, \E i \in Sources : ~fwd_done[i]) = "ok"
    /\ received' = Append(received, MkRecord(Head(chan).src, Head(chan).ts,
                                             total_pushed + 1))

\* The threads of the program are scheduled fairly: a forwarder, the sink
\* loop or the consumer that can take a step eventually takes it (for the
\* sink iteration, a step that receives the next record).  The producers
\* and the owner of the notification receiver are free to send, close or
\* drop, or not to.
Fairness ==
    /\ \A i \in Sources : WF_vars(Forward(i)) /\ WF_vars(ForwarderExit(i))
    /\ WF_received(SinkReceives) /\ WF_vars(SinkExit)
    /\ WF_vars(ConsumerRecv) /\ WF_vars(ConsumerRead) /\ WF_vars(ConsumerExit)

SpecSystemFair == Init /\ [][NextSystem]_vars /\ Fairness

AllClosed == \A i \in Sources : ~src_open[i]

\* The forwarder of source i waits on its source channel, open and empty.
Waiting(i) == ~fwd_done[i] /\ src_open[i] /\ src_chan[i] = <<>>

\* C14, as claimed: once all source channels are closed, run() eventually
\* returns, and when it has, the loop has processed every record that was
\* sent.
C14_ReturnsAfterProcessingAll ==
    /\ AllClosed ~> Returned
    /\ [](Terminated => Len(received) = accepted)

\* C14, amended: once all source channels are closed, every forwarder
\* finishes and run() eventually returns; when the loop ended because the
\* unified channel closed, every forwarder had finished, the channels were
\* empty and every record that was sent has been processed, in the order
\* its source sent it.
C14_ReturnsAfterClose ==
    /\ AllClosed ~> Returned
    /\ [](sink_pc = "closed" =>
              /\ \A i \in Sources : fwd_done[i] /\ src_chan[i] = <<>>
              /\ chan = <<>>
              /\ Len(received) = accepted
              /\ total_pushed = accepted)

\* Every source channel was closed after MaxSend values were sent, the loop
\* processed them all and ended on the closed unified channel, run()
\* returned and the consumer finished.
C14_Witness ==
    /\ Terminated
    /\ sink_pc = "closed"
    /\ accepted = MaxSend
    /\ Len(received) = MaxSend
    /\ Delivered = Sources
    /\ cons.pc = "done"

\* C16, as claimed: once the notification receiver is dropped, run()
\* eventually returns, even while source channels stay open.
C16_ReturnsAfterReceiverDropped == ~notif_rx ~> Returned

\* C16, amended: once the notification receiver is dropped the sink sends
\* nothing more; an iteration whose dump appends records then finds its
\* send failing and breaks the loop; after the break every forwarder exits
\* or waits on a source channel that is open and empty; run() eventually
\* returns unless from some point on a forwarder waits for good on such a
\* channel.
C16_BreaksAtNextSend ==
    /\ [][~notif_rx =>
              /\ notified' = notified
              /\ notif' = <<>>
              /\ (Len(output') > Len(output) => sink_pc' = "broke")]_vars
    /\ (sink_pc = "broke") ~> (\A i \in Sources : fwd_done[i] \/ Waiting(i))
    /\ ~notif_rx ~> (Returned \/ [](\E i \in Sources : Waiting(i)))

\* The receiver was dropped, a later dump appended records, the send failed
\* and broke the loop, the forwarders exited on failed sends and run() has
\* returned while a source channel is still open.
C16_Witness ==
    /\ cons.pc = "dropped"
    /\ sink_pc = "broke"
    /\ Returned
    /\ \E i \in Sources : src_open[i]
    /\ SumSeq(notified) < Len(output)

\* The positions in the output at which a batch announced by a
\* notification ends.
BatchEnds == {SumSeq(SubSeq(notified, 1, k)) : k \in 1..Len(notified)}

\* The consumer has read the last record of a batch and the first of the
\* next, and the latter has the smaller timestamp.
ReadInversionAcrossBatches ==
    \E p \in BatchEnds :
        /\ p >= 1 /\ p < Len(read_log)
        /\ timestamp(read_log[p + 1]) < timestamp(read_log[p])

\* C19, as claimed: a record in a later batch whose timestamp is smaller
\* than the last record of the preceding batch makes the consumer's
\* assertion fail.
C19_AssertsAcrossBatches == ReadInversionAcrossBatches => cons.pc = "assert_failed"

\* C19, amended: on each notification the consumer reads exactly `count`
\* records; prev is the timestamp of the record read before in the same
\* batch and is unset at the first record of a batch, so the assertion
\* compares records of one batch only; the records of a batch are
\* nondecreasing and the assertion does not fail, whether or not a batch
\* starts below the end of the batch before.
C19_AssertsWithinBatch ==
    /\ cons.pc # "assert_failed"
    /\ cons.pc \in {"recv", "done"} => Len(read_log) \in BatchEnds \cup {0}
    /\ cons.pc = "read" =>
           /\ Len(read_log) + cons.left \in BatchEnds
           /\ cons.left >= 1
           /\ (cons.prev = None) <=> (Len(read_log) \in BatchEnds \cup {0})
           /\ cons.prev # None => cons.prev = Some(timestamp(read_log[Len(read_log)]))
    /\ \A p \in 1..(Len(read_log) - 1) :
           p \notin BatchEnds => timestamp(read_log[p]) <= timestamp(read_log[p + 1])

\* The consumer has read a batch of two records or more and then a batch
\* that starts below the end of that one, and is waiting for the next
\* notification.
C19_Witness ==
    /\ ReadInversionAcrossBatches
    /\ cons.pc = "recv"
    /\ Len(read_log) = Len(output)
    /\ \E k \in 1..Len(notified) : notified[k] >= 2

\* The timestamps of the messages of source i in a channel or in the list
\* of received records, in order.
TimestampsOf(seq, i) ==
    LET own == SelectSeq(seq, LAMBDA m : m.src = i)
    IN [k \in 1..Len(own) |-> own[k].ts]

IsPrefix(s, t) == Len(s) <= Len(t) /\ s = SubSeq(t, 1, Len(s))

\* C26: the records of one source are received and pushed in exactly the
\* order that source sent them, each once: what the sink has received of a
\* source is a prefix of what the source sent, and while the loop runs the
\* rest is, in order, in the unified channel and then in the source channel;
\* the k-th record received is the k-th record pushed.  In each iteration
\* the sink sets last_timestamps of the record's source, pushes the record,
\* computes the watermark from the updated last_timestamps and dumps up to
\* it, and receives one record only.
C26_PerSourceOrder ==
    /\ [](\A i \in Sources :
             /\ IsPrefix(TimestampsOf(received, i), sent[i])
             /\ sink_pc = "loop" =>
                    sent[i] = TimestampsOf(received, i) \o TimestampsOf(chan, i)
                                 \o src_chan[i])
    /\ [](/\ total_pushed = Len(received)
          /\ \A k \in 1..Len(received) :
                 /\ received[k].id = k
                 /\ ~failed => received[k] \in Resident \cup Range(output))
    /\ [][received' # received =>
             LET r == received'[Len(received')]
             IN /\ received' = Append(received, r)
                /\ r.src = Head(chan).src /\ r.ts = Head(chan).ts
                /\ last_timestamps' = [last_timestamps EXCEPT ![r.src] = Some(r.ts)]
                /\ total_pushed' = total_pushed + 1
                /\ watermark' = find_earliest_timestamp(last_timestamps')
                /\ watermark' = None => output' = output
                /\ (watermark' # None /\ ~failed') =>
                       /\ last_call'.op = "dump"
                       /\ last_call'.w = Unwrap(watermark')
                       /\ \A x \in Resident' : timestamp(x) > Unwrap(watermark')
                       /\ timestamp(r) <= Unwrap(watermark') => r \in Range(Added)]_vars

\* Source 1 has sent 2 and then 0, the sink has received both in that
\* order with a record of source 2 between them, and the last of the three
\* was written by the dump of its own iteration.
C26_Witness ==
    /\ sent[1] = <<2, 0>>
    /\ Len(received) = 3
    /\ TimestampsOf(received, 1) = <<2, 0>>
    /\ received[2].src = 2
    /\ last_call.op = "dump"
    /\ Len(output) >= 1
    /\ \E k \in 1..Len(output) : output[k].id = 3

\* ------------------------------------- the output writer and its reader

out_frame == <<max_in_memory, capacity, in_memory, files, files_counter,
               earliest_buffered_timestamp, failed, total_pushed, out_meta,
               pre_violated, unit_vars, sink_vars, sys_vars>>

\* A call of output::Writer::write.
OutWrite(src, ts) ==
    /\ Len(writes) < MaxPush
    /\ LET record == MkRecord(src, ts, Len(writes) + 1)
           wr == Writer_write([obuf |-> obuf, output |-> output], record)
       IN /\ obuf' = wr.obuf
          /\ output' = wr.output
          /\ writes' = Append(writes, record)
    /\ last_call' = [op |-> "write", w |-> 0, ret |-> 0]
    /\ UNCHANGED <<rpos, read_log, out_frame>>

\* A call of output::Writer::flush.
OutFlush ==
    /\ LET wr == Writer_flush([obuf |-> obuf, output |-> output])
       IN /\ obuf' = wr.obuf
          /\ output' = wr.output
    /\ last_call' = [op |-> "flush", w |-> 0, ret |-> 0]
    /\ UNCHANGED <<rpos, read_log, writes, out_frame>>

\* A call of output::Reader::read.
OutRead ==
    /\ LET r == Reader_read(output, rpos)
       IN /\ rpos' = r.pos
          /\ read_log' = IF r.ok THEN Append(read_log, Unwrap(r.record)) ELSE read_log
          /\ last_call' = [op |-> IF r.ok THEN "read" ELSE "read_error",
                           w |-> 0, ret |-> 0]
    /\ UNCHANGED <<obuf, output, writes, out_frame>>

NextOutput ==
    \/ \E src \in Sources, ts \in Timestamps : OutWrite(src, ts)
    \/ OutFlush
    \/ OutRead

\* A writer and a reader on the same file, called in any order.
SpecOutput == Init /\ [][NextOutput]_vars

\* C20: the file holds the records written, in write order, up to the last
\* flush; successive reads return them in that order, one record each; a
\* read past the last flushed record returns an error and a read within the
\* flushed records does not.
C20_WriterReaderFifo ==
    /\ [](/\ output \o obuf = writes
          /\ Len(read_log) <= Len(output)
          /\ read_log = SubSeq(writes, 1, Len(read_log))
          /\ (obuf = <<>> /\ Len(read_log) = Len(writes)) => output = read_log)
    /\ [][last_call'.op = "read" =>
              /\ Len(read_log) < Len(output)
              /\ read_log' = Append(read_log, writes[Len(read_log) + 1])]_vars
    /\ [][last_call'.op = "read_error" =>
              /\ Len(read_log) = Len(output)
              /\ read_log' = read_log]_vars

\* Three records or more of different variants, written out of timestamp
\* order, were flushed and all read back, and one more read returned an
\* error.
C20_Witness ==
    /\ Len(writes) >= 3
    /\ obuf = <<>>
    /\ read_log = writes
    /\ last_call.op = "read_error"
    /\ \E i, j \in 1..Len(writes) :
           i < j /\ timestamp(writes[i]) > timestamp(writes[j])
    /\ \E i, j \in 1..Len(writes) : writes[i].src # writes[j].src

====
